---- MODULE Spec2Model ----
(***************************************************************************)
(* Model of generate.py: the Aforro portfolio report generator.            *)
(*                                                                         *)
(* Three specifications share the variables:                               *)
(*   Spec       a whole run of main(): load the configuration, one HTTP    *)
(*              request per subscription, the HTML report, the summary.    *)
(*   SpecDates  IGCPClient._adjust_dates applied to every pair of dates.   *)
(*   SpecFetch  IGCPClient.fetch_value applied to every response.          *)
(*                                                                         *)
(* Money is modelled in whole euros (integers); a quotient of two floats   *)
(* is kept as the pair [num, den] it was computed from.                    *)
(***************************************************************************)
EXTENDS Integers, Sequences, FiniteSets, TLC

VARIABLES
    pc,             \* position of main(): start, loop, waiting, summary, done, exit1,
                    \* crashed; "fn" when a single function is applied
    config,         \* content of subscriptions.json
    today,          \* datetime.now() of main()
    subscriptions,  \* the list of Subscription objects
    idx,            \* loop counter i of the fetch loop (1-based)
    requests,       \* HTTP requests issued so far, in order
    outcomes,       \* per processed subscription, the marker printed: "ok" or "failed"
    report,         \* whether out/index.html is written, and the ratio in it
    summary,        \* whether the summary is printed, and its totals and ratio
    exitCode,       \* exit code of the process: "0" or "1", "running" before
    args,           \* arguments of the function applied (SpecDates, SpecFetch)
    ret             \* how far its call is, and its result

vars == <<pc, config, today, subscriptions, idx, requests, outcomes,
          report, summary, exitCode, args, ret>>

mainVars == <<pc, config, today, subscriptions, idx, requests, outcomes,
              report, summary, exitCode>>

----------------------------------------------------------------------------
(* Bounds *)

MaxSubs == 2        \* longest configuration
BaseYear == 2023    \* first year of the dates of SpecDates
NumYears == 2       \* number of years of the dates of SpecDates
MaxDay == 3         \* days of month 1..MaxDay of the dates of SpecDates

----------------------------------------------------------------------------
(* Values *)

\* A JSON or Python value is tagged with its type, so that a number is never
\* compared with a string.
Num(n) == [t |-> "num", n |-> n]        \* a number
None == [t |-> "none", n |-> 0]         \* Python None: a field that is not set
Absent == [t |-> "absent", n |-> 0]     \* a key that a JSON object does not have
NonNum == [t |-> "str", n |-> 0]        \* a non-empty JSON string such as "ten"

IsNum(v) == v.t = "num"

AforroSeries == {"A", "B", "C", "D", "E", "F"}

Date(y, m, d) == [year |-> y, month |-> m, day |-> d]

Dates == {Date(y, m, d) : y \in BaseYear..(BaseYear + NumYears - 1),
                          m \in 1..12, d \in 1..MaxDay}

\* d1 is not later than d2 (datetime comparison, by calendar date)
DateLE(d1, d2) ==
    \/ d1.year < d2.year
    \/ d1.year = d2.year /\ d1.month < d2.month
    \/ d1.year = d2.year /\ d1.month = d2.month /\ d1.day <= d2.day

----------------------------------------------------------------------------
(* IGCPClient._adjust_dates *)

AdjustDatesNoRollover(date, acquisition_date) ==
    LET req_acq == Date(acquisition_date.year, acquisition_date.month, 1)
        req_date == IF date.day < acquisition_date.day
                    THEN IF date.month = 1
                         THEN Date(date.year, 12, 1)
                         ELSE Date(date.year, date.month - 1, 1)
                    ELSE Date(date.year, date.month, 1)
    IN  [req_date |-> req_date, req_acq |-> req_acq]

AdjustDatesLE(date, acquisition_date) ==
    LET req_acq == Date(acquisition_date.year, acquisition_date.month, 1)
        req_date == IF date.day <= acquisition_date.day
                    THEN IF date.month = 1
                         THEN Date(date.year - 1, 12, 1)
                         ELSE Date(date.year, date.month - 1, 1)
                    ELSE Date(date.year, date.month, 1)
    IN  [req_date |-> req_date, req_acq |-> req_acq]

AdjustDates(date, acquisition_date) ==
    LET d_day == date.day
        a_day == acquisition_date.day
        req_acq == Date(acquisition_date.year, acquisition_date.month, 1)
        req_date == IF d_day < a_day
                    THEN IF date.month = 1
                         THEN Date(date.year - 1, 12, 1)
                         ELSE Date(date.year, date.month - 1, 1)
                    ELSE Date(date.year, date.month, 1)
    IN  [req_date |-> req_date, req_acq |-> req_acq]

\* datetime.strftime('%d/%m/%Y'): day, month and year, in that order
Strftime(d) == <<d.day, d.month, d.year>>

----------------------------------------------------------------------------
(* The inputs of a run *)

\* today of main(): the first is before the acquisition day-of-month, in
\* January; the second is on it.
Todays == {Date(2024, 1, 2), Date(2024, 1, 3)}

IsoDate(d) == [t |-> "iso", d |-> d]                    \* "2023-12-03"
BadDate == [t |-> "bad", d |-> Date(0, 0, 0)]           \* "03/12/2023"
AbsentDate == [t |-> "absent", d |-> Date(0, 0, 0)]     \* no "acquisition_date" key

Item(s, n, a, u) ==
    [series |-> s, subscription_number |-> n, acquisition_date |-> a, units |-> u]

\* Entries of subscriptions.json that the specification calls well-formed
GoodItems ==
    {Item("A", "n1", IsoDate(Date(2023, 12, 3)), Num(u)) : u \in {0, 2}}

\* Entries with one missing or invalid field
BadItems ==
    { Item("Z", "n1", IsoDate(Date(2023, 12, 3)), Num(2)),
      Item("absent", "n1", IsoDate(Date(2023, 12, 3)), Num(2)),
      Item("A", "absent", IsoDate(Date(2023, 12, 3)), Num(2)),
      Item("A", "n1", BadDate, Num(2)),
      Item("A", "n1", AbsentDate, Num(2)),
      Item("A", "n1", IsoDate(Date(2023, 12, 3)), Absent),
      Item("A", "n1", IsoDate(Date(2023, 12, 3)), NonNum) }

Items == GoodItems \cup BadItems

SeqsUpTo(S, n) == UNION {[1..k -> S] : k \in 0..n}

FileMissing == [state |-> "missing", data |-> <<>>]
Malformed == [state |-> "malformed", data |-> <<>>]
JsonFile(items) == [state |-> "json", data |-> items]

ConfigFiles ==
    {FileMissing, Malformed} \cup {JsonFile(s) : s \in SeqsUpTo(Items, MaxSubs)}

\* What the specification calls a bad entry: a field missing or invalid
ItemIsBad(item) ==
    \/ item.series \notin AforroSeries
    \/ item.subscription_number = "absent"
    \/ item.acquisition_date.t # "iso"
    \/ ~IsNum(item.units)

ConfigIsBad(c) ==
    \/ c.state # "json"
    \/ \E k \in 1..Len(c.data) : ItemIsBad(c.data[k])

\* HTTP responses
FieldVals == {Absent, NonNum, Num(-900), Num(0), Num(1000)}

Object(v, a) == [isObject |-> TRUE, field_value |-> v, field_acquisition_value |-> a]
NotObject == [isObject |-> FALSE, field_value |-> Absent, field_acquisition_value |-> Absent]

Response(k, l, e) == [kind |-> k, isList |-> l, elems |-> e]

Responses ==
    { Response("conn_error", FALSE, <<>>),   \* connection error or timeout
      Response("http_error", FALSE, <<>>),   \* status 4xx or 5xx
      Response("not_json", FALSE, <<>>),     \* body is no JSON
      Response("json", FALSE, <<>>),         \* JSON, but no array
      Response("json", TRUE, <<>>),          \* the empty array
      Response("json", TRUE, <<NotObject>>) }
    \cup {Response("json", TRUE, <<Object(v, a)>>) : v, a \in FieldVals}

----------------------------------------------------------------------------
(* load_subscriptions *)

\* Building one Subscription raises (KeyError, ValueError, TypeError) or not
ItemRaises(item) ==
    \/ item.series = "absent"                   \* item['series']: KeyError
    \/ item.series \notin AforroSeries          \* AforroSeries(...): ValueError
    \/ item.subscription_number = "absent"      \* KeyError
    \/ item.acquisition_date.t # "iso"          \* KeyError, or fromisoformat: ValueError
    \/ item.units = Absent                      \* item['units']: KeyError

Subscription(item) ==
    [ series |-> item.series,
      subscription_number |-> item.subscription_number,
      acquisition_date |-> item.acquisition_date.d,
      units |-> item.units,
      unit_value |-> None,
      total_value |-> None,
      acquisition_value |-> None ]

\* [raised, subs]: exit(1) on a missing file or on any exception
LoadSubscriptions(c) ==
    IF c.state # "json" \/ \E k \in 1..Len(c.data) : ItemRaises(c.data[k])
    THEN [raised |-> TRUE, subs |-> <<>>]
    ELSE [raised |-> FALSE, subs |-> [k \in 1..Len(c.data) |-> Subscription(c.data[k])]]

----------------------------------------------------------------------------
(* IGCPClient.fetch_value *)

\* The query parameters of the GET request
FetchParams(series, date, acquisition_date, quantity) ==
    LET adj == AdjustDates(date, acquisition_date)
    IN  [ field_serie |-> series,
          field_field_date |-> Strftime(adj.req_date),
          field_field_acquisition_date |-> Strftime(adj.req_acq),
          quantity |-> quantity ]

Raised == [raised |-> TRUE, value |-> NotObject]
Returned(v) == [raised |-> FALSE, value |-> v]

\* The try block: what fetch_value does with the response of session.get
FetchValue(resp) ==
    IF resp.kind = "conn_error" THEN Raised         \* session.get raises
    ELSE IF resp.kind = "http_error" THEN Raised    \* raise_for_status raises
    ELSE IF resp.kind = "not_json" THEN Raised      \* response.json() raises
    ELSE IF resp.isList /\ Len(resp.elems) > 0
         THEN Returned(resp.elems[1])
         ELSE Raised                                \* ValueError

----------------------------------------------------------------------------
(* The body of the fetch loop of main *)

\* A quotient of two numbers, as computed
Quot(n, d) == [t |-> "num", num |-> n, den |-> d]
Zero == Quot(0, 1)

IsSet(v) == v.t # "none"

\* sub.total_value / sub.units if sub.units > 0 else 0
UnitValueGE(total_value, units) ==
    IF units >= 0 THEN Quot(total_value, units) ELSE Zero

UnitValue(total_value, units) ==
    IF units > 0 THEN Quot(total_value, units) ELSE Zero

Failed(sub) == [sub |-> sub, outcome |-> "failed"]
Ok(sub) == [sub |-> sub, outcome |-> "ok"]

\* The try block of the loop, statement by statement: an exception leaves
\* the assignments made before it in place.
ProcessResult(sub, f) ==
    IF f.raised THEN Failed(sub)
    ELSE IF ~f.value.isObject THEN Failed(sub)              \* TypeError
    ELSE IF f.value.field_value = Absent THEN Failed(sub)   \* KeyError
    ELSE LET s1 == [sub EXCEPT !.total_value = f.value.field_value] IN
    IF f.value.field_acquisition_value = Absent THEN Failed(s1)     \* KeyError
    ELSE LET s2 == [s1 EXCEPT !.acquisition_value = f.value.field_acquisition_value] IN
    IF ~IsNum(sub.units) THEN Failed(s2)                    \* str > 0: TypeError
    ELSE IF sub.units.n > 0 /\ ~IsNum(s2.total_value) THEN Failed(s2)   \* str / int: TypeError
    ELSE LET s3 == [s2 EXCEPT !.unit_value = UnitValue(s2.total_value.n, sub.units.n)] IN
    IF ~IsNum(s3.total_value) THEN Failed(s3)               \* format_number: ValueError
    ELSE Ok(s3)

\* for i, sub in enumerate(subscriptions, 1): the next subscription,
\* whatever the outcome of this one
LoopAdvanceRetry(i, outcome) == IF outcome = "failed" THEN i ELSE i + 1

LoopAdvance(i, outcome) == i + 1

----------------------------------------------------------------------------
(* Totals and ratio: generate_html_report and the summary of main *)

\* Python truth value: None and 0 are false, a non-empty string is true
Truthy(v) == v.t = "str" \/ (v.t = "num" /\ v.n # 0)

RECURSIVE SumNums(_)
SumNums(vals) ==
    IF vals = <<>> THEN 0
    ELSE (IF Truthy(Head(vals)) THEN Head(vals).n ELSE 0) + SumNums(Tail(vals))

\* sum(v for v in vals if v): [raised, total]; int + str is a TypeError
SumTruthy(vals) ==
    IF \E k \in 1..Len(vals) : Truthy(vals[k]) /\ ~IsNum(vals[k])
    THEN [raised |-> TRUE, total |-> 0]
    ELSE [raised |-> FALSE, total |-> SumNums(vals)]

TotalValues(subs) == [k \in 1..Len(subs) |-> subs[k].total_value]
AcquisitionValues(subs) == [k \in 1..Len(subs) |-> subs[k].acquisition_value]

\* total_current / total_invested if total_invested > 0 else 0
RatioNonZero(total_current, total_invested) ==
    IF total_invested # 0 THEN Quot(total_current, total_invested) ELSE Zero

Ratio(total_current, total_invested) ==
    IF total_invested > 0 THEN Quot(total_current, total_invested) ELSE Zero

\* [raised, current, invested, ratio]
Totals(subs) ==
    LET c == SumTruthy(TotalValues(subs))
        i == SumTruthy(AcquisitionValues(subs))
    IN  IF c.raised \/ i.raised
        THEN [raised |-> TRUE, current |-> 0, invested |-> 0, ratio |-> Zero]
        ELSE [raised |-> FALSE, current |-> c.total, invested |-> i.total,
              ratio |-> Ratio(c.total, i.total)]

NoReport == [written |-> FALSE, ratio |-> Zero]
NoSummary == [printed |-> FALSE, current |-> 0, invested |-> 0, ratio |-> Zero]
NoCall == [state |-> "none"]

----------------------------------------------------------------------------
(* Spec: a run of main() *)

Init ==
    /\ pc = "start"
    /\ config \in ConfigFiles
    /\ today \in Todays
    /\ subscriptions = <<>>
    /\ idx = 1
    /\ requests = <<>>
    /\ outcomes = <<>>
    /\ report = NoReport
    /\ summary = NoSummary
    /\ exitCode = "running"
    /\ args = NoCall
    /\ ret = NoCall

\* subscriptions = load_subscriptions()
Load ==
    /\ pc = "start"
    /\ LET l == LoadSubscriptions(config) IN
        /\ subscriptions' = l.subs
        /\ pc' = IF l.raised THEN "exit1" ELSE "loop"
        /\ exitCode' = IF l.raised THEN "1" ELSE exitCode
    /\ UNCHANGED <<config, today, idx, requests, outcomes, report, summary, args, ret>>

\* The loop reaches subscription idx: fetch_value up to session.get
SendRequest ==
    /\ pc = "loop"
    /\ idx <= Len(subscriptions)
    /\ LET sub == subscriptions[idx] IN
        requests' = Append(requests,
            [sub |-> idx,
             params |-> FetchParams(sub.series, today, sub.acquisition_date, sub.units)])
    /\ pc' = "waiting"
    /\ UNCHANGED <<config, today, subscriptions, idx, outcomes, report, summary,
                   exitCode, args, ret>>

\* session.get returns or raises: the rest of fetch_value and of the loop body
ReceiveResponse ==
    /\ pc = "waiting"
    /\ \E resp \in Responses :
        LET r == ProcessResult(subscriptions[idx], FetchValue(resp)) IN
        /\ subscriptions' = [subscriptions EXCEPT ![idx] = r.sub]
        /\ outcomes' = Append(outcomes, r.outcome)
        /\ idx' = LoopAdvance(idx, r.outcome)
    /\ pc' = "loop"
    /\ UNCHANGED <<config, today, requests, report, summary, exitCode, args, ret>>

\* generate_html_report(subscriptions), after the loop
GenerateReport ==
    /\ pc = "loop"
    /\ idx > Len(subscriptions)
    /\ LET t == Totals(subscriptions) IN
        /\ report' = IF t.raised THEN report ELSE [written |-> TRUE, ratio |-> t.ratio]
        /\ pc' = IF t.raised THEN "crashed" ELSE "summary"
        /\ exitCode' = IF t.raised THEN "1" ELSE exitCode
    /\ UNCHANGED <<config, today, subscriptions, idx, requests, outcomes, summary, args, ret>>

\* The summary of main, and the normal end of the process
PrintSummary ==
    /\ pc = "summary"
    /\ LET t == Totals(subscriptions) IN
        /\ summary' = IF t.raised THEN summary
                      ELSE [printed |-> TRUE, current |-> t.current,
                            invested |-> t.invested, ratio |-> t.ratio]
        /\ pc' = IF t.raised THEN "crashed" ELSE "done"
        /\ exitCode' = IF t.raised THEN "1" ELSE "0"
    /\ UNCHANGED <<config, today, subscriptions, idx, requests, outcomes, report, args, ret>>

Next ==
    \/ Load
    \/ SendRequest
    \/ ReceiveResponse
    \/ GenerateReport
    \/ PrintSummary

Spec == Init /\ [][Next]_vars

----------------------------------------------------------------------------
(* SpecDates: _adjust_dates on every pair of dates *)

Idle ==
    /\ pc = "fn"
    /\ config = FileMissing
    /\ today = Date(2024, 1, 2)
    /\ subscriptions = <<>>
    /\ idx = 1
    /\ requests = <<>>
    /\ outcomes = <<>>
    /\ report = NoReport
    /\ summary = NoSummary
    /\ exitCode = "running"

InitDates ==
    /\ Idle
    /\ args \in {[date |-> d, acquisition_date |-> a] : d \in Dates, a \in Dates}
    /\ ret = NoCall

CallAdjustDates ==
    /\ ret.state = "none"
    /\ LET adj == AdjustDates(args.date, args.acquisition_date) IN
        ret' = [state |-> "adjusted", req_date |-> adj.req_date, req_acq |-> adj.req_acq]
    /\ UNCHANGED <<mainVars, args>>

NextDates == CallAdjustDates

SpecDates == InitDates /\ [][NextDates]_vars

----------------------------------------------------------------------------
(* SpecFetch: fetch_value on every response *)

InitFetch ==
    /\ Idle
    /\ args \in {[series |-> s, date |-> d, acquisition_date |-> Date(2023, 12, 3),
                  quantity |-> q] :
                    s \in AforroSeries, d \in Todays, q \in {Num(0), Num(2), NonNum}}
    /\ ret = NoCall

\* fetch_value up to session.get
FetchSend ==
    /\ ret.state = "none"
    /\ ret' = [state |-> "sent",
               params |-> FetchParams(args.series, args.date, args.acquisition_date,
                                      args.quantity)]
    /\ UNCHANGED <<mainVars, args>>

\* fetch_value from the response on: it returns data[0], or raises
FetchEnd ==
    /\ ret.state = "sent"
    /\ \E resp \in Responses :
        LET f == FetchValue(resp) IN
        ret' = [state |-> IF f.raised THEN "raised" ELSE "returned",
                resp |-> resp, value |-> f.value]
    /\ UNCHANGED <<mainVars, args>>

NextFetch ==
    \/ FetchSend
    \/ FetchEnd

SpecFetch == InitFetch /\ [][NextFetch]_vars

----------------------------------------------------------------------------
(* Properties *)

\* Months since year 0 of the month of date d
MonthIndex(d) == 12 * d.year + (d.month - 1)
FirstOfMonthIndex(m) == Date(m \div 12, (m % 12) + 1, 1)

\* C1: _adjust_dates returns, as acquisition-request date, day 1 of the
\* acquisition date's month and year, and as value-request date day 1 of the
\* month before today's month when today's day-of-month is strictly less than
\* the acquisition day-of-month (December of the year before, from January),
\* and day 1 of today's month otherwise.
C1_AdjustDates ==
    ret.state = "adjusted" =>
        LET t == args.date
            a == args.acquisition_date
        IN  /\ ret.req_acq = Date(a.year, a.month, 1)
            /\ t.day < a.day => ret.req_date = FirstOfMonthIndex(MonthIndex(t) - 1)
            /\ t.day < a.day /\ t.month = 1 => ret.req_date = Date(t.year - 1, 12, 1)
            /\ t.day >= a.day => ret.req_date = Date(t.year, t.month, 1)

\* A January today before the acquisition day-of-month has been adjusted
C1_Witness ==
    /\ ret.state = "adjusted"
    /\ args.date.month = 1
    /\ args.date.day < args.acquisition_date.day

\* C10: when the acquisition date is not later than today, the value-request
\* date is neither earlier than the acquisition-request date nor later than
\* today.
C10_RequestDateInRange ==
    ret.state = "adjusted" /\ DateLE(args.acquisition_date, args.date) =>
        /\ DateLE(ret.req_acq, ret.req_date)
        /\ DateLE(ret.req_date, args.date)

\* The previous-month branch was taken right after the acquisition month
C10_Witness ==
    /\ ret.state = "adjusted"
    /\ DateLE(args.acquisition_date, args.date)
    /\ args.date.day < args.acquisition_date.day
    /\ MonthIndex(args.date) = MonthIndex(args.acquisition_date) + 1

Processed == 1..Len(outcomes)

AllSet(sub) == IsSet(sub.total_value) /\ IsSet(sub.acquisition_value) /\ IsSet(sub.unit_value)
AllUnset(sub) == ~IsSet(sub.total_value) /\ ~IsSet(sub.acquisition_value) /\ ~IsSet(sub.unit_value)

\* C2: after a subscription has been processed by the fetch loop, its
\* total_value, acquisition_value and unit_value are all set or all unset.
C2_AllOrNothing ==
    \A k \in Processed : AllSet(subscriptions[k]) \/ AllUnset(subscriptions[k])

BothSet(sub) == IsSet(sub.total_value) /\ IsSet(sub.acquisition_value)

RECURSIVE SumBothSet(_, _)
SumBothSet(subs, field) ==
    IF subs = <<>> THEN 0
    ELSE (IF BothSet(Head(subs)) THEN Head(subs)[field].n ELSE 0)
         + SumBothSet(Tail(subs), field)

\* C3: at the end of a run the reported total current value is the sum of
\* total_value over the subscriptions that have total_value and
\* acquisition_value set, the reported total invested value the sum of
\* acquisition_value over the same subscriptions, and a subscription reported
\* as failed contributes to neither. Stated for the runs of a well-formed
\* configuration.
C3_TotalsOverBothSet ==
    pc = "done" /\ ~ConfigIsBad(config) =>
        /\ summary.current = SumBothSet(subscriptions, "total_value")
        /\ summary.invested = SumBothSet(subscriptions, "acquisition_value")
        /\ \A k \in Processed : outcomes[k] = "failed" =>
                /\ ~Truthy(subscriptions[k].total_value)
                /\ ~Truthy(subscriptions[k].acquisition_value)

\* q is the quotient n / d
IsQuotient(q, n, d) == q.den # 0 /\ q.num * d = n * q.den
IsZero(q) == q.den # 0 /\ q.num = 0

\* The ratio as the original claim has it: the quotient unless invested is 0
RatioIsQuotientUnlessZero(ratio, current, invested) ==
    /\ invested # 0 => IsQuotient(ratio, current, invested)
    /\ invested = 0 => IsZero(ratio)

\* The ratio as the code has it: the quotient when invested is positive
RatioIsQuotientWhenPositive(ratio, current, invested) ==
    /\ invested > 0 => IsQuotient(ratio, current, invested)
    /\ invested <= 0 => IsZero(ratio)

NumericOrUnset(sub) ==
    /\ IsNum(sub.total_value) \/ ~IsSet(sub.total_value)
    /\ IsNum(sub.acquisition_value) \/ ~IsSet(sub.acquisition_value)

\* C5: once a well-formed configuration has loaded, a failure while
\* processing a subscription never aborts the run: whatever subscriptions are
\* reported as failed (the others holding numbers), the process does not end
\* with a non-zero exit code, and it ends only after every subscription has
\* been processed and the report written.
C5_FetchFailureNeverAborts ==
    /\ pc \notin {"start", "exit1"}
    /\ ~ConfigIsBad(config)
    /\ \A k \in Processed : outcomes[k] = "ok" => NumericOrUnset(subscriptions[k])
    =>  /\ exitCode # "1"
        /\ exitCode = "0" => Len(outcomes) = Len(subscriptions) /\ report.written

\* C6: with a bad configuration (file missing, JSON malformed, an entry with
\* a missing or invalid field, a units value that is no integer) the run
\* issues no HTTP request, writes no report and does not end with exit code 0.
C6_BadConfigAborts ==
    ConfigIsBad(config) =>
        /\ requests = <<>>
        /\ ~report.written
        /\ exitCode # "0"

\* The response the original claim lets fetch_value return on
GoodResponse(resp) ==
    /\ resp.kind = "json"
    /\ resp.isList
    /\ Len(resp.elems) > 0
    /\ resp.elems[1].isObject
    /\ resp.elems[1].field_value # Absent
    /\ resp.elems[1].field_acquisition_value # Absent

\* C7: fetch_value returns a result only when the call succeeded with a
\* success status and the response is a non-empty array whose first element
\* has both expected fields; in every other case it raises.
C7_FetchRaisesOnBadShape ==
    /\ ret.state = "returned" => GoodResponse(ret.resp)
    /\ ret.state = "raised" => ~GoodResponse(ret.resp)

\* C8: the k-th HTTP request is for the k-th configured subscription, a
\* request is issued only after the attempts for all earlier subscriptions
\* have ended, and no subscription gets a second request.
C8_OneRequestEachInOrder ==
    /\ \A k \in 1..Len(requests) :
        /\ requests[k].sub = k
        /\ k <= Len(subscriptions)
        /\ requests[k].params.quantity = subscriptions[k].units
    /\ Len(requests) = Len(outcomes) + (IF pc = "waiting" THEN 1 ELSE 0)
    /\ pc \in {"summary", "done", "crashed"} => Len(requests) = Len(subscriptions)

\* A run has ended in which the first attempt failed and a second was made
C8_Witness ==
    /\ pc = "done"
    /\ Len(requests) >= 2
    /\ outcomes[1] = "failed"

\* C9: for a subscription whose fetch succeeded, the unit value is
\* total value / units when units > 0, and 0 otherwise.
C9_UnitValue ==
    \A k \in Processed : outcomes[k] = "ok" =>
        LET sub == subscriptions[k] IN
        /\ IsSet(sub.unit_value)
        /\ IsNum(sub.units) /\ IsNum(sub.total_value)
        /\ sub.units.n > 0 => IsQuotient(sub.unit_value, sub.total_value.n, sub.units.n)
        /\ sub.units.n <= 0 => IsZero(sub.unit_value)

\* Two fetches succeeded, one with units = 0 and one with units > 0
C9_Witness ==
    /\ \E k \in Processed :
        outcomes[k] = "ok" /\ subscriptions[k].units.n = 0
        /\ subscriptions[k].total_value.n # 0
    /\ \E k \in Processed :
        outcomes[k] = "ok" /\ subscriptions[k].units.n > 0

====
